---- MODULE Spec2Model ----
(***************************************************************************)
(* One turn of NaturalQueryService.conversationalSearch                    *)
(* (src/src/natural-query/natural-query.service.ts), modelled as a state   *)
(* machine whose steps are the stretches of code between two awaits.      *)
(* Texts (feedback reasons, SQL, messages) are TLA+ strings and the        *)
(* string operations of the code (toLowerCase, includes, split, replace,   *)
(* match) are computed character by character.                             *)
(***************************************************************************)
EXTENDS Integers, Sequences, FiniteSets, TLC

VARIABLES
  pc,                  \* position of the turn: the await it is suspended at
  message,             \* argument message
  profileFeedback,     \* argument profileFeedback
  conversationHistory, \* argument conversationHistory
  criticalFilters,     \* const criticalFilters (line 414)
  contextSummary,      \* let contextSummary (line 489)
  content,             \* const content: raw text of the first backend answer
  parsed,              \* let parsed: the draft currently adopted
  retryParsed,         \* const retryParsed: the relaxed draft (line 684)
  feedbackContext,     \* let feedbackContext: the sections put in the prompt
  data,                \* let data: rows of the adopted query
  totalRows,           \* let totalRows
  result,              \* the value returned, or the error thrown
  dbCalls,             \* calls made to clickhouseService.query, in order
  llmCalls,            \* calls made to openai.chat.completions.create
  checked,             \* drafts that went through the block of lines 625-649
  warnings,            \* logger.warn calls of the turn
  other,               \* the locals of a second invocation, suspended at an await
  job                  \* the locals of a call of JobsService

vars == <<pc, message, profileFeedback, conversationHistory, criticalFilters,
          contextSummary, content, parsed, retryParsed, feedbackContext,
          data, totalRows, result,
          dbCalls, llmCalls, checked, warnings, other, job>>

----------------------------------------------------------------------------
(* Bounds *)

MaxFeedback == 2
MaxExtractFeedback == 3
MaxHistory == 9
MaxRows == 1

----------------------------------------------------------------------------
(* String primitives of the JavaScript runtime *)

\* Texts are written in ASCII: a letter with a diacritic is the letter followed
\* by its mark, "^" circumflex, "/" acute, "~" tilde, "," cedilla (so "se^nior"
\* is the source's 's\u00EAnior'). Lower-casing acts on the letter and leaves the
\* mark, and a keyword occurs in a text exactly when it does in the source's.

UpperChars == "ABCDEFGHIJKLMNOPQRSTUVWXYZ"
LowerChars == "abcdefghijklmnopqrstuvwxyz"

CharAt(s, i) == SubSeq(s, i, i)

\* the lower-case letter of each upper-case letter
LowerOf ==
  [c \in {CharAt(UpperChars, i) : i \in 1..Len(UpperChars)} |->
     CharAt(LowerChars, CHOOSE i \in 1..Len(UpperChars) : CharAt(UpperChars, i) = c)]

LowerChar[c \in STRING] == IF c \in DOMAIN LowerOf THEN LowerOf[c] ELSE c

\* String.prototype.toLowerCase, one character at a time (by halves, which
\* keeps the recursion shallow on long texts)
lowered[s \in STRING] ==
  IF Len(s) = 0 THEN ""
  ELSE IF Len(s) = 1 THEN LowerChar[s]
  ELSE lowered[SubSeq(s, 1, Len(s) \div 2)] \o lowered[SubSeq(s, Len(s) \div 2 + 1, Len(s))]

toLowerCase(s) == lowered[s]

\* sub occurs in s at position i
OccursAt(s, sub, i) ==
  /\ i >= 1
  /\ i + Len(sub) - 1 <= Len(s)
  /\ SubSeq(s, i, i + Len(sub) - 1) = sub

\* positions at which sub occurs in s
positions[s \in STRING, sub \in STRING] == {i \in 1..Len(s) : OccursAt(s, sub, i)}

Positions(s, sub) == positions[s, sub]

\* String.prototype.includes
includes(s, sub) == sub = "" \/ Positions(s, sub) # {}

IsDigit(c) == c \in {"0", "1", "2", "3", "4", "5", "6", "7", "8", "9"}
IsSpace(c) == c \in {" ", "\t", "\n"}

\* reason.match(/\d+\s*anos/): a digit, optional white space, then "anos"
yearsMatch[reason \in STRING] ==
  \E i \in 1..Len(reason) :
    /\ OccursAt(reason, "anos", i)
    /\ \E j \in 1..(i - 1) :
         /\ IsDigit(CharAt(reason, j))
         /\ \A k \in (j + 1)..(i - 1) : IsSpace(CharAt(reason, k))

matchYears(reason) == yearsMatch[reason]

----------------------------------------------------------------------------
(* extractCriticalFilters, lines 355-400 *)

SeniorityFilter ==
  "OBRIGATO/RIO: Use apenas seniority IN ('ESTAGIARIO / TRAINEE', 'ANALISTA') - O recrutador NA~O quer perfis senior/especialista/gerente"
SeniorityOrderFilter ==
  "OBRIGATO/RIO: Adicione filtro seniority_order <= 2 para garantir apenas perfis ju/nior"
ExperienceFilter ==
  "EVITE perfis com muitos anos de experie^ncia mencionados no headline ou cargo"

\* profileFeedback.filter((f) => !f.interesting)
RECURSIVE notInterestingOf(_)
notInterestingOf(list) ==
  IF list = <<>> THEN <<>>
  ELSE (IF ~Head(list).interesting THEN <<Head(list)>> ELSE <<>>) \o notInterestingOf(Tail(list))

\* profileFeedback.filter((f) => f.interesting)
RECURSIVE interestingOf(_)
interestingOf(list) ==
  IF list = <<>> THEN <<>>
  ELSE (IF Head(list).interesting THEN <<Head(list)>> ELSE <<>>) \o interestingOf(Tail(list))

\* variant: only the word senior makes a reason a "too senior" one
seniorReasonByWord(reason) ==
  includes(reason, "senior") \/ includes(reason, "se^nior")

\* the condition of line 371 on one lower-cased reason
seniorReason(reason) ==
  \/ includes(reason, "senior")
  \/ includes(reason, "se^nior")
  \/ includes(reason, "experie^ncia")
  \/ includes(reason, "anos")

\* the condition of line 374
juniorReason(reason) == includes(reason, "junior") \/ includes(reason, "ju/nior")

\* the forEach of lines 368-380: the three counters after the whole list
RECURSIVE countMentions(_, _)
countMentions(list, acc) ==
  IF list = <<>> THEN acc
  ELSE LET reason == toLowerCase(Head(list).reason)
       IN countMentions(Tail(list),
            [seniorMentions |-> acc.seniorMentions + (IF seniorReason(reason) THEN 1 ELSE 0),
             juniorMentions |-> acc.juniorMentions + (IF juniorReason(reason) THEN 1 ELSE 0),
             experienceMentions |-> acc.experienceMentions + (IF matchYears(reason) THEN 1 ELSE 0)])

\* lines 361-399: the filters for the entries that are not interesting
criticalFiltersOf(notInteresting) ==
  LET m == countMentions(notInteresting,
             [seniorMentions |-> 0, juniorMentions |-> 0, experienceMentions |-> 0])
  IN IF Len(notInteresting) = 0 THEN <<>>
     ELSE (IF m.seniorMentions >= 2 THEN <<SeniorityFilter, SeniorityOrderFilter>> ELSE <<>>)
          \o (IF m.experienceMentions >= 2 THEN <<ExperienceFilter>> ELSE <<>>)

\* variant: every entry is counted, the interesting ones too
extractFromAllEntries(feedback) == criticalFiltersOf(feedback)

\* variant: only the two latest entries are looked at
extractFromLatestTwo(feedback) ==
  criticalFiltersOf(notInterestingOf(IF Len(feedback) <= 2 THEN feedback
                                     ELSE SubSeq(feedback, Len(feedback) - 1, Len(feedback))))

\* the entries of a list that no later entry of the same profile follows
RECURSIVE latestPerProfile(_)
latestPerProfile(list) ==
  IF list = <<>> THEN <<>>
  ELSE (IF \E i \in DOMAIN Tail(list) : Tail(list)[i].profileId = Head(list).profileId
        THEN <<>> ELSE <<Head(list)>>)
       \o latestPerProfile(Tail(list))

\* variant: a later entry for a profile replaces the earlier ones
extractLatestPerProfile(feedback) ==
  criticalFiltersOf(notInterestingOf(latestPerProfile(feedback)))

extractCriticalFilters(feedback) ==
  criticalFiltersOf(notInterestingOf(feedback))

----------------------------------------------------------------------------
(* The constraint check of conversationalSearch, lines 625-649 *)

\* first position at or after i where kw occurs in s, 0 when there is none
firstIndexFrom(s, kw, i) ==
  LET ps == {p \in i..Len(s) : OccursAt(s, kw, p)}
  IN IF ps = {} THEN 0 ELSE CHOOSE p \in ps : \A q \in ps : p <= q

\* String.prototype.split with the case-insensitive regular expression /kw/i
\* (kw is given in lower case): the pieces between the matches, left to right
RECURSIVE splitFrom(_, _, _)
splitFrom(s, kw, i) ==
  LET p == firstIndexFrom(toLowerCase(s), kw, i)
  IN IF p = 0 THEN <<SubSeq(s, i, Len(s))>>
     ELSE <<SubSeq(s, i, p - 1)>> \o splitFrom(s, kw, p + Len(kw))

splitWhere(sql) == splitFrom(sql, "where", 1)

\* sql.replace(/(ORDER BY|LIMIT)/i, ')$1'): a ")" goes in front of the first
\* match only (the expression has no g flag)
closeBeforeOrderOrLimit(sql) ==
  LET low == toLowerCase(sql)
      ps == {p \in 1..Len(sql) : OccursAt(low, "order by", p) \/ OccursAt(low, "limit", p)}
  IN IF ps = {} THEN sql
     ELSE LET p == CHOOSE q \in ps : \A r \in ps : q <= r
          IN SubSeq(sql, 1, p - 1) \o ")" \o SubSeq(sql, p, Len(sql))

\* Array.prototype.some over the list of filters
mentionsSeniority(filters) == \E i \in 1..Len(filters) : includes(filters[i], "seniority")

\* lines 632-635
hasJuniorKeyword(sqlLower) ==
  \/ includes(sqlLower, "estagiario")
  \/ includes(sqlLower, "trainee")
  \/ includes(sqlLower, "analista")
  \/ includes(sqlLower, "seniority_order")

\* const hasSeniorityFilter, lines 630-637
hasSeniorityFilter(filters, sqlLower) ==
  \E i \in 1..Len(filters) : includes(filters[i], "seniority") /\ hasJuniorKeyword(sqlLower)

\* variant: the patch is applied without looking for the keywords first
needsPatchUnchecked(filters, sql) ==
  Len(filters) > 0 /\ mentionsSeniority(filters)

\* line 639: the draft is to be patched
needsPatch(filters, sql) ==
  /\ Len(filters) > 0
  /\ mentionsSeniority(filters)
  /\ ~hasSeniorityFilter(filters, toLowerCase(sql))

\* variant: a draft without a filter clause is given one
patchSeniorityOrAppend(sql) ==
  LET whereParts == splitWhere(sql)
  IN IF Len(whereParts) = 2
     THEN closeBeforeOrderOrLimit(
            whereParts[1]
            \o "WHERE (seniority IN ('ESTAGIARIO / TRAINEE', 'ANALISTA') OR seniority_order <= 2) AND ("
            \o whereParts[2])
     ELSE sql \o " WHERE seniority_order <= 2"

\* lines 642-647: the text of parsed.sql after the patch attempt
patchSeniority(sql) ==
  LET whereParts == splitWhere(sql)
  IN IF Len(whereParts) = 2
     THEN closeBeforeOrderOrLimit(
            whereParts[1]
            \o "WHERE (seniority IN ('ESTAGIARIO / TRAINEE', 'ANALISTA') OR seniority_order <= 2) AND ("
            \o whereParts[2])
     ELSE sql

\* lines 626-649 as a whole: parsed.sql when the block is left
enforceCriticalFilters(filters, sql) ==
  IF needsPatch(filters, sql) THEN patchSeniority(sql) ELSE sql

----------------------------------------------------------------------------
(* Answers of the text backend and their parsing, lines 593-623, 681-687 *)

\* the value of a field the answer does not carry
Undefined == "<undefined>"

\* an answer is prose, then possibly one serialized object, then prose; the
\* serialized object is kept as the record obj and stands in the raw text as
\* ObjText (it starts with "{" and ends with "}", as every JSON object does)
ObjText == "{#}"

Draft(sql, countSql, msg, tag) ==
  [sql |-> sql, countSql |-> countSql, explanation |-> "explicac,a~o " \o tag,
   assistantMessage |-> msg, searchCriteria |-> "crite/rios " \o tag]

EmptyDraft == Draft("", "", "", "")

Content(pre, hasObj, obj, post) == [pre |-> pre, hasObj |-> hasObj, obj |-> obj, post |-> post]

EmptyContent == Content("", FALSE, EmptyDraft, "")

\* response.choices[0]?.message?.content?.trim()
rawText(c) == c.pre \o (IF c.hasObj THEN ObjText ELSE "") \o c.post

\* content.match(/\{[\s\S]*\}/): from the first "{" to the last "}" of the
\* text, "" when there is no such span
matchBraces(text) ==
  LET opens == Positions(text, "{")
      closes == Positions(text, "}")
  IN IF opens = {} \/ closes = {} THEN ""
     ELSE LET i == CHOOSE p \in opens : \A q \in opens : p <= q
              j == CHOOSE p \in closes : \A q \in closes : p >= q
          IN IF i < j THEN SubSeq(text, i, j) ELSE ""

\* JSON.parse succeeds on the serialized object alone and throws on anything
\* that has prose around it or no object in it
jsonParses(text) == text = ObjText

\* position of the "}" that closes the brace opened before position i, with
\* depth braces open at i; 0 when the text ends first
RECURSIVE closeOf(_, _, _)
closeOf(text, i, depth) ==
  IF i > Len(text) THEN 0
  ELSE IF CharAt(text, i) = "{" THEN closeOf(text, i + 1, depth + 1)
  ELSE IF CharAt(text, i) = "}"
       THEN (IF depth = 1 THEN i ELSE closeOf(text, i + 1, depth - 1))
  ELSE closeOf(text, i + 1, depth)

\* the first balanced brace-delimited span of a text, "" when there is none
firstBalancedSpan(text) ==
  LET opens == Positions(text, "{")
  IN IF opens = {} THEN ""
     ELSE LET i == CHOOSE p \in opens : \A q \in opens : p <= q
              j == closeOf(text, i + 1, 1)
          IN IF j = 0 THEN "" ELSE SubSeq(text, i, j)

\* variant: the second tier parses the first balanced span of the text
parseOutcomeFirstBalanced(c) ==
  IF jsonParses(rawText(c)) THEN "strict"
  ELSE IF firstBalancedSpan(rawText(c)) = "" THEN "no-span"
  ELSE IF jsonParses(firstBalancedSpan(rawText(c))) THEN "span"
  ELSE "span-invalid"

\* lines 608-619: which of the two tiers yields the draft, or why none does
parseOutcome(c) ==
  IF jsonParses(rawText(c)) THEN "strict"
  ELSE IF matchBraces(rawText(c)) = "" THEN "no-span"
  ELSE IF jsonParses(matchBraces(rawText(c))) THEN "span"
  ELSE "span-invalid"

\* lines 684-686: JSON.parse(retryContent.match(...)?.[0] || retryContent)
retryParses(c) ==
  jsonParses(IF matchBraces(rawText(c)) # "" THEN matchBraces(rawText(c)) ELSE rawText(c))

----------------------------------------------------------------------------
(* Inputs of a turn *)

Message == "nova busca"

Entry(id, interesting, reason) ==
  [profileId |-> id, interesting |-> interesting, reason |-> reason]

\* the feedback entries a turn is run with
TurnEntries ==
  {Entry("p1", FALSE, "Muito Senior para a vaga"), Entry("p2", TRUE, "bom perfil")}

SeqsUpTo(S, n) == UNION {[1..k -> S] : k \in 0..n}

\* conversationHistory of n turns, user and assistant alternating
History(n) ==
  [i \in 1..n |-> [role |-> IF i % 2 = 1 THEN "user" ELSE "assistant",
                   content |-> "m" \o ToString(i)]]

HistoryLengths == {0, 6, 7, 8, MaxHistory}

\* drafts the backend may answer the first request with
SqlPlain == "SELECT * FROM linkedin.people WHERE headline ILIKE '%dev%' ORDER BY full_name LIMIT 7"
SqlJunior == "SELECT * FROM linkedin.people WHERE seniority_order <= 2 AND headline ILIKE '%dev%' LIMIT 7"
SqlNoWhere == "SELECT * FROM linkedin.people LIMIT 7"
SqlAnalista == "select * from linkedin.people where headline ilike '%Analista%' limit 7"
SqlNoLimit == "SELECT * FROM linkedin.people WHERE city = 'CURITIBA'"
SqlSubquery == "SELECT * FROM linkedin.people WHERE profile_id IN (SELECT profile_id FROM t WHERE x = 1) LIMIT 7"
CountPlain == "SELECT COUNT(*) as total FROM linkedin.people WHERE headline ILIKE '%dev%'"

OriginalDrafts ==
  {Draft(SqlPlain, CountPlain, "Encontrei candidatos", "o1"),
   Draft(SqlJunior, "", "Encontrei juniores", "o2"),
   Draft(SqlNoWhere, "", "Todos os perfis", "o3"),
   Draft(SqlAnalista, "", "Encontrei analistas", "o4"),
   Draft(SqlNoLimit, "", "Perfis em Curitiba", "o5"),
   Draft(SqlSubquery, "", "Perfis da lista", "o6"),
   Draft("", "", "Preciso de mais detalhes", "o7")}

SqlRelaxed == "SELECT * FROM linkedin.people WHERE headline ILIKE '%dev%' LIMIT 7"
SqlRelaxedJunior == "SELECT * FROM linkedin.people WHERE seniority_order <= 2 LIMIT 7"
CountRelaxed == "SELECT COUNT(*) as total FROM linkedin.people WHERE headline ILIKE '%dev%'"

RelaxedDrafts ==
  {Draft(SqlRelaxed, CountRelaxed, "Como a busca era restritiva, relaxei os crite/rios", "r1"),
   Draft(SqlRelaxedJunior, "", "Aqui esta~o mais candidatos", "r2"),
   Draft(SqlRelaxed, "", Undefined, "r3"),
   Draft("", "", "Na~o consegui gerar outra query", "r4")}

\* the raw answers: the object alone, the object inside prose, prose with a
\* brace of its own around the object, prose only, and nothing
ContentsOf(drafts) ==
  {Content("", TRUE, d, "") : d \in drafts}
  \cup {Content("Aqui esta/ o JSON: ", TRUE, d, " Espero ter ajudado.") : d \in drafts}

BrokenContents(d) ==
  {Content("Nota {importante}: ", TRUE, d, ""),
   Content("", TRUE, d, " (fim})"),
   Content("Desculpe, na~o entendi o pedido.", FALSE, EmptyDraft, ""),
   Content("Desculpe {erro} interno.", FALSE, EmptyDraft, ""),
   EmptyContent}

OriginalContents ==
  ContentsOf(OriginalDrafts)
  \cup BrokenContents(Draft(SqlPlain, CountPlain, "Encontrei candidatos", "o1"))

RelaxedContents ==
  ContentsOf(RelaxedDrafts)
  \cup BrokenContents(Draft(SqlRelaxed, CountRelaxed, "Como a busca era restritiva, relaxei os crite/rios", "r1"))

\* what an external call may come back with
SummaryTexts == {"", "- Cargo: dev"}
\* a scalar of a row as the store's JSON carries it: a number, or a string
\* of digits (the wide integers of the store, such as a count, come quoted)
JsonNumber(digits) == [type |-> "number", text |-> digits]
JsonString(text) == [type |-> "string", text |-> text]

\* the rows of a count query: none, one without the column total, one with it
CountResults ==
  {<<>>, <<[count |-> JsonString("12")]>>, <<[total |-> JsonNumber("0")]>>,
   <<[total |-> JsonNumber("12")]>>, <<[total |-> JsonString("12")]>>}

\* the rows the store returns for a query: n records, each carrying the text
\* of the query it answers
Rows(n, sql) == [i \in 1..n |-> [id |-> i, q |-> sql]]

NoResult == [status |-> "pending"]

\* no second invocation is under way
NoFrame == [pc |-> "none"]

\* no call of JobsService is under way
NoJob == [pc |-> "none"]
Failure(msg) == [status |-> "error", error |-> msg]

Init ==
  /\ pc = "start"
  /\ message = Message
  /\ profileFeedback \in SeqsUpTo(TurnEntries, MaxFeedback)
  /\ conversationHistory \in {History(n) : n \in HistoryLengths}
  /\ criticalFilters = <<>>
  /\ contextSummary = ""
  /\ content = EmptyContent
  /\ parsed = EmptyDraft
  /\ retryParsed = EmptyDraft
  /\ feedbackContext = <<>>
  /\ data = <<>>
  /\ totalRows = 0
  /\ result = NoResult
  /\ dbCalls = <<>>
  /\ llmCalls = <<>>
  /\ checked = {}
  /\ warnings = <<>>
  /\ other = NoFrame
  /\ job = NoJob

----------------------------------------------------------------------------
(* Prompt assembly, lines 284-287, 324-344, 417-496, 563-582, 660-674 *)

\* Array.prototype.join
RECURSIVE join(_, _)
join(list, sep) ==
  IF list = <<>> THEN ""
  ELSE IF Len(list) = 1 THEN list[1]
  ELSE list[1] \o sep \o join(Tail(list), sep)

\* conversationHistory.filter((m) => m.role === 'user').map((m) => m.content)
RECURSIVE userMessagesOf(_)
userMessagesOf(msgs) ==
  IF msgs = <<>> THEN <<>>
  ELSE (IF Head(msgs).role = "user" THEN <<Head(msgs).content>> ELSE <<>>)
       \o userMessagesOf(Tail(msgs))

\* interesting.filter((f) => f.reason).map((f) => f.reason)
RECURSIVE reasonsOf(_)
reasonsOf(list) ==
  IF list = <<>> THEN <<>>
  ELSE (IF Head(list).reason # "" THEN <<Head(list).reason>> ELSE <<>>) \o reasonsOf(Tail(list))

\* lines 422-427: the section on the interesting profiles
interestingSection(feedback) ==
  IF Len(feedback) > 0 /\ Len(interestingOf(feedback)) > 0
  THEN <<"PERFIS MARCADOS COMO INTERESSANTES">> ELSE <<>>

\* lines 441-461: the details of the interesting profiles, when rows came back
detailsSection(n) ==
  IF n > 0 THEN <<"DETALHES DOS PERFIS INTERESSANTES">> ELSE <<>>

\* lines 468-485: the rest of feedbackContext
restOfFeedbackContext(feedback, filters) ==
  IF Len(feedback) = 0 THEN <<>>
  ELSE (IF Len(notInterestingOf(feedback)) > 0
        THEN <<"PERFIS MARCADOS COMO NA~O INTERESSANTES">> ELSE <<>>)
       \o <<"IMPORTANTE: Exclua os perfis ja/ avaliados">>
       \o (IF Len(filters) > 0
           THEN <<"FILTROS OBRIGATO/RIOS BASEADOS NO FEEDBACK:">> \o filters
                \o <<"ESTES FILTROS SA~O OBRIGATO/RIOS E DEVEM SER INCLUI/DOS NA QUERY!">>
           ELSE <<>>)

\* variant: the summarizer is given the turns of the window only
summaryRequestOfWindow(history) ==
  [kind |-> "summary",
   messages |-> <<[role |-> "system", content |-> "extrai e sumariza crite/rios de busca"],
                  [role |-> "user",
                   content |-> join(userMessagesOf(
                                 IF Len(history) > 8
                                 THEN SubSeq(history, Len(history) - 7, Len(history))
                                 ELSE history), "\n")]>>]

\* lines 284-315: the request of summarizeSearchContext
summaryRequest(history) ==
  [kind |-> "summary",
   messages |-> <<[role |-> "system", content |-> "extrai e sumariza crite/rios de busca"],
                  [role |-> "user", content |-> join(userMessagesOf(history), "\n")]>>]

\* lines 324-344: the summary returned for the backend text
summaryOf(text, feedback) ==
  LET interesting == interestingOf(feedback)
      withReasons == reasonsOf(interesting)
      patterns ==
        IF Len(interesting) > 0
        THEN <<"Perfis marcados como interessantes: " \o ToString(Len(interesting))>>
             \o (IF Len(withReasons) > 0
                 THEN <<"Padro~es valorizados: " \o join(withReasons, ", ")>>
                 ELSE <<>>)
        ELSE <<>>
  IN IF Len(feedback) > 0 /\ Len(patterns) > 0
     THEN text \o "\n\nFeedback do recrutador:\n" \o join(patterns, "\n")
     ELSE text

\* variant: the summary section is put in the prompt whatever the summary
systemPromptWithSection(fc, summary) ==
  join(fc, "\n")
  \o "\n\n=== RESUMO DO CONTEXTO DA CONVERSA ===\n" \o summary \o "\n"

\* lines 494-496: the variable part of systemPrompt
systemPrompt(fc, summary) ==
  join(fc, "\n")
  \o (IF summary # "" THEN "\n\n=== RESUMO DO CONTEXTO DA CONVERSA ===\n" \o summary \o "\n" ELSE "")

\* variant: the window keeps the oldest eight turns
historyToUseOldest(history) ==
  IF Len(history) > 8 THEN SubSeq(history, 1, 8) ELSE history

\* lines 569-571
historyToUse(history) ==
  IF Len(history) > 8 THEN SubSeq(history, Len(history) - 7, Len(history)) ELSE history

\* lines 564-582: const messages
draftMessages(msg, history, fc, summary) ==
  <<[role |-> "system", content |-> systemPrompt(fc, summary)]>>
  \o historyToUse(history)
  \o <<[role |-> "user", content |-> msg]>>

\* lines 588-591: the drafting request
draftRequest(msg, history, fc, summary) ==
  [kind |-> "draft", messages |-> draftMessages(msg, history, fc, summary)]

\* lines 660-674: const retryMessages
relaxedRequest(messages, c) ==
  [kind |-> "relaxed",
   messages |-> messages
                \o <<[role |-> "assistant", content |-> rawText(c)],
                     [role |-> "user", content |-> "A query retornou 0 resultados. Por favor, RELAXE os crite/rios"]>>]

----------------------------------------------------------------------------
(* conversationalSearch, lines 402-735, one action per stretch between awaits *)

\* an entry of dbCalls: the query sent, and what came back once it returned
\* (outcome "pending" until then, "thrown" or "rows" with their number after)
DbCall(kind, draft, sql) ==
  [kind |-> kind, draft |-> draft, sql |-> sql, outcome |-> "pending", rows |-> 0,
   countResult |-> <<>>]
DataCall(draft, sql) == DbCall("data", draft, sql)
CountCall(sql) == DbCall("count", "", sql)
DetailsCall ==
  DbCall("details", "", "SELECT profile_id, full_name FROM linkedin.people WHERE profile_id IN (...) LIMIT 10")

\* the last call of the log has returned
Returned(calls, thrown, n) ==
  [calls EXCEPT ![Len(calls)].outcome = IF thrown THEN "thrown" ELSE "rows",
                ![Len(calls)].rows = n]

\* lines 727-734: the value returned
Success(p, rows, total) ==
  [status |-> "ok", query |-> p.sql, explanation |-> p.explanation, data |-> rows,
   totalRows |-> total, assistantMessage |-> p.assistantMessage,
   searchCriteria |-> p.searchCriteria]

\* variant: the drafting request goes out without waiting for a summary
ToDraftAtOnce(fc) ==
  /\ feedbackContext' = fc
  /\ pc' = "draft"
  /\ llmCalls' = Append(llmCalls, draftRequest(message, conversationHistory, fc, ""))

\* variant: the summarizer is called on the histories the window cuts
ToSummaryOrDraftWhenCut(fc) ==
  /\ feedbackContext' = fc
  /\ IF Len(conversationHistory) > 8
     THEN /\ pc' = "summary"
          /\ llmCalls' = Append(llmCalls, summaryRequest(conversationHistory))
     ELSE /\ pc' = "draft"
          /\ llmCalls' = Append(llmCalls, draftRequest(message, conversationHistory, fc, ""))

\* lines 488-492 and 588: the summarizer is awaited when the history is long,
\* otherwise the drafting request goes out
ToSummaryOrDraft(fc) ==
  /\ feedbackContext' = fc
  /\ IF Len(conversationHistory) > 6
     THEN /\ pc' = "summary"
          /\ llmCalls' = Append(llmCalls, summaryRequest(conversationHistory))
     ELSE /\ pc' = "draft"
          /\ llmCalls' = Append(llmCalls, draftRequest(message, conversationHistory, fc, ""))

\* lines 407-440: up to the first await
Begin ==
  /\ pc = "start"
  /\ LET filters == extractCriticalFilters(profileFeedback)
     IN /\ criticalFilters' = filters
        /\ IF Len(profileFeedback) > 0 /\ Len(interestingOf(profileFeedback)) >= 2
           THEN /\ pc' = "details"
                /\ dbCalls' = Append(dbCalls, DetailsCall)
                /\ feedbackContext' = interestingSection(profileFeedback)
                /\ UNCHANGED llmCalls
           ELSE /\ ToSummaryOrDraft(interestingSection(profileFeedback)
                                    \o restOfFeedbackContext(profileFeedback, filters))
                /\ UNCHANGED dbCalls
  /\ UNCHANGED <<job, other, message, profileFeedback, conversationHistory, contextSummary, content, parsed,
                 retryParsed, data, totalRows, result, checked, warnings>>

\* lines 432-486: the details query returns n rows or throws
DetailsReturn ==
  /\ pc = "details"
  /\ \E thrown \in BOOLEAN, n \in 0..MaxRows :
       /\ thrown => n = 0
       /\ warnings' = IF thrown THEN Append(warnings, "details") ELSE warnings
       /\ dbCalls' = Returned(dbCalls, thrown, n)
       /\ ToSummaryOrDraft(feedbackContext \o detailsSection(n)
                           \o restOfFeedbackContext(profileFeedback, criticalFilters))
  /\ UNCHANGED <<job, other, message, profileFeedback, conversationHistory, criticalFilters, contextSummary,
                 content, parsed, retryParsed, data, totalRows, result, checked>>

\* variant: a summary that came back is taken for a critical filter as well
SummaryReturnAddsFilter ==
  /\ pc = "summary"
  /\ \E thrown \in BOOLEAN, text \in SummaryTexts :
       LET summary == IF thrown THEN "" ELSE summaryOf(text, profileFeedback)
       IN /\ thrown => text = ""
          /\ contextSummary' = summary
          /\ criticalFilters' = IF summary # "" THEN Append(criticalFilters, summary)
                                ELSE criticalFilters
          /\ warnings' = IF thrown THEN Append(warnings, "summary") ELSE warnings
          /\ llmCalls' = Append(llmCalls, draftRequest(message, conversationHistory, feedbackContext, summary))
  /\ pc' = "draft"
  /\ UNCHANGED <<job, other, message, profileFeedback, conversationHistory, content, parsed,
                 retryParsed, feedbackContext, data, totalRows, result, dbCalls, checked>>

\* lines 317-349 and 491-591: the summarizer's backend call returns or throws
SummaryReturn ==
  /\ pc = "summary"
  /\ \E thrown \in BOOLEAN, text \in SummaryTexts :
       LET summary == IF thrown THEN "" ELSE summaryOf(text, profileFeedback)
       IN /\ thrown => text = ""
          /\ contextSummary' = summary
          /\ warnings' = IF thrown THEN Append(warnings, "summary") ELSE warnings
          /\ llmCalls' = Append(llmCalls, draftRequest(message, conversationHistory, feedbackContext, summary))
  /\ pc' = "draft"
  /\ UNCHANGED <<job, other, message, profileFeedback, conversationHistory, criticalFilters, content, parsed,
                 retryParsed, feedbackContext, data, totalRows, result, dbCalls, checked>>

\* the turn ends with an error thrown to the caller
Fail(msg) ==
  /\ pc' = "error"
  /\ result' = Failure(msg)

\* lines 588-654: the drafting call returns; the answer is parsed, checked
\* against the critical filters and sent to the store
DraftReturn ==
  /\ pc = "draft"
  /\ \E thrown \in BOOLEAN, c \in OriginalContents :
       IF thrown
       THEN /\ c = EmptyContent
            /\ Fail("drafting call failed")
            /\ UNCHANGED <<content, parsed, dbCalls, checked, warnings>>
       ELSE /\ content' = c
            /\ IF rawText(c) = ""
               THEN /\ Fail("OpenAI na~o retornou uma resposta va/lida")
                    /\ UNCHANGED <<parsed, dbCalls, checked, warnings>>
               ELSE IF parseOutcome(c) = "no-span"
               THEN /\ Fail("Na~o foi possi/vel parsear resposta da OpenAI")
                    /\ UNCHANGED <<parsed, dbCalls, checked, warnings>>
               ELSE IF parseOutcome(c) = "span-invalid"
               THEN /\ Fail("SyntaxError")
                    /\ UNCHANGED <<parsed, dbCalls, checked, warnings>>
               ELSE IF c.obj.sql = ""
               THEN /\ Fail("A resposta na~o conte/m uma query SQL")
                    /\ parsed' = c.obj
                    /\ UNCHANGED <<dbCalls, checked, warnings>>
               ELSE LET sql == enforceCriticalFilters(criticalFilters, c.obj.sql)
                    IN /\ parsed' = [c.obj EXCEPT !.sql = sql]
                       /\ checked' = checked \cup {"original"}
                       /\ warnings' = IF needsPatch(criticalFilters, c.obj.sql)
                                      THEN Append(warnings, "seniority") ELSE warnings
                       /\ dbCalls' = Append(dbCalls, DataCall("original", sql))
                       /\ pc' = "exec"
                       /\ UNCHANGED result
  /\ UNCHANGED <<job, other, message, profileFeedback, conversationHistory, criticalFilters, contextSummary,
                 retryParsed, feedbackContext, data, totalRows, llmCalls>>

\* variant: a single row is taken for an empty result as well
shouldRelaxFewRows(rows) == Len(rows) <= 1

\* line 657: the first result calls for a relaxed search
shouldRelax(rows) == Len(rows) = 0

\* lines 711-735 up to the next await: the count query goes out when the
\* adopted draft has one, otherwise the result is returned
CountOrReturn(p, rows, calls) ==
  /\ totalRows' = Len(rows)
  /\ IF p.countSql # ""
     THEN /\ pc' = "count"
          /\ dbCalls' = Append(calls, CountCall(p.countSql))
          /\ UNCHANGED result
     ELSE /\ pc' = "done"
          /\ dbCalls' = calls
          /\ result' = Success(p, rows, Len(rows))

\* lines 654-679: the first query returns rows or throws
ExecReturn ==
  /\ pc = "exec"
  /\ \E thrown \in BOOLEAN, n \in 0..MaxRows :
       IF thrown
       THEN /\ n = 0
            /\ Fail("query failed")
            /\ dbCalls' = Returned(dbCalls, TRUE, 0)
            /\ UNCHANGED <<data, totalRows, llmCalls>>
       ELSE LET rows == Rows(n, parsed.sql)
            IN /\ data' = rows
               /\ IF shouldRelax(rows)
                  THEN /\ pc' = "relaxDraft"
                       /\ llmCalls' = Append(llmCalls,
                            relaxedRequest(llmCalls[Len(llmCalls)].messages, content))
                       /\ dbCalls' = Returned(dbCalls, FALSE, n)
                       /\ UNCHANGED <<totalRows, result>>
                  ELSE /\ CountOrReturn(parsed, rows, Returned(dbCalls, FALSE, n))
                       /\ UNCHANGED llmCalls
  /\ UNCHANGED <<job, other, message, profileFeedback, conversationHistory, criticalFilters, contextSummary,
                 content, parsed, retryParsed, feedbackContext, checked, warnings>>

\* lines 676-691: the relaxed drafting call returns or throws
RelaxDraftReturn ==
  /\ pc = "relaxDraft"
  /\ \E thrown \in BOOLEAN, c \in RelaxedContents :
       IF thrown
       THEN /\ c = EmptyContent
            /\ Fail("relaxed drafting call failed")
            /\ UNCHANGED <<retryParsed, totalRows, dbCalls, warnings>>
       ELSE IF rawText(c) = ""
       THEN /\ CountOrReturn(parsed, data, dbCalls)
            /\ UNCHANGED <<retryParsed, warnings>>
       ELSE IF ~retryParses(c)
       THEN /\ warnings' = Append(warnings, "retry")
            /\ CountOrReturn(parsed, data, dbCalls)
            /\ UNCHANGED retryParsed
       ELSE /\ retryParsed' = c.obj
            /\ UNCHANGED warnings
            /\ IF c.obj.sql = ""
               THEN CountOrReturn(parsed, data, dbCalls)
               ELSE /\ pc' = "relaxExec"
                    /\ dbCalls' = Append(dbCalls, DataCall("relaxed", c.obj.sql))
                    /\ UNCHANGED <<totalRows, result>>
  /\ UNCHANGED <<job, other, message, profileFeedback, conversationHistory, criticalFilters, contextSummary,
                 content, parsed, feedbackContext, data, llmCalls, checked>>

RelaxationNotice ==
  "A busca original era muito restritiva e na~o encontrou resultados. Relaxei alguns crite/rios para trazer candidatos.\n\n"

\* lines 697-702: the message of the adopted relaxed draft
discloseRelaxation(msg) ==
  IF ~includes(msg, "relaxe") /\ ~includes(msg, "ampli")
  THEN RelaxationNotice \o msg ELSE msg

\* variant: only the query of the relaxed draft is adopted
adoptedDraftQueryOnly(rp) == [parsed EXCEPT !.sql = rp.sql]

\* lines 693-703: the relaxed draft, as adopted when it brought rows
adoptedDraft(rp) ==
  IF rp.assistantMessage = Undefined THEN rp
  ELSE [rp EXCEPT !.assistantMessage = discloseRelaxation(rp.assistantMessage)]

\* calls of a kind made so far
NumLlm(kind) == Cardinality({i \in DOMAIN llmCalls : llmCalls[i].kind = kind})
NumDb(kind) == Cardinality({i \in DOMAIN dbCalls : dbCalls[i].kind = kind})
NumData(draft) ==
  Cardinality({i \in DOMAIN dbCalls : dbCalls[i].kind = "data" /\ dbCalls[i].draft = draft})

\* variant: an empty relaxed result asks for another relaxed draft, up to
\* three attempts
RelaxExecReturnAgain ==
  /\ pc = "relaxExec"
  /\ \E thrown \in BOOLEAN, n \in 0..MaxRows :
       IF thrown
       THEN /\ n = 0
            /\ warnings' = Append(warnings, "retry")
            /\ CountOrReturn(parsed, data, Returned(dbCalls, TRUE, 0))
            /\ UNCHANGED <<parsed, data, llmCalls>>
       ELSE LET retryData == Rows(n, retryParsed.sql)
            IN IF Len(retryData) > 0
               THEN /\ data' = retryData
                    /\ parsed' = adoptedDraft(retryParsed)
                    /\ warnings' = IF retryParsed.assistantMessage = Undefined
                                   THEN Append(warnings, "retry") ELSE warnings
                    /\ CountOrReturn(adoptedDraft(retryParsed), retryData,
                                     Returned(dbCalls, FALSE, n))
                    /\ UNCHANGED llmCalls
               ELSE IF NumLlm("relaxed") < 3
               THEN /\ pc' = "relaxDraft"
                    /\ llmCalls' = Append(llmCalls, llmCalls[Len(llmCalls)])
                    /\ dbCalls' = Returned(dbCalls, FALSE, n)
                    /\ UNCHANGED <<parsed, data, warnings, totalRows, result>>
               ELSE /\ CountOrReturn(parsed, data, Returned(dbCalls, FALSE, n))
                    /\ UNCHANGED <<parsed, data, warnings, llmCalls>>
  /\ UNCHANGED <<job, other, message, profileFeedback, conversationHistory, criticalFilters, contextSummary,
                 content, retryParsed, feedbackContext, checked>>

\* lines 689-725: the relaxed query returns rows or throws
RelaxExecReturn ==
  /\ pc = "relaxExec"
  /\ \E thrown \in BOOLEAN, n \in 0..MaxRows :
       IF thrown
       THEN /\ n = 0
            /\ warnings' = Append(warnings, "retry")
            /\ CountOrReturn(parsed, data, Returned(dbCalls, TRUE, 0))
            /\ UNCHANGED <<parsed, data, llmCalls>>
       ELSE LET retryData == Rows(n, retryParsed.sql)
            IN IF Len(retryData) > 0
               THEN /\ data' = retryData
                    /\ parsed' = adoptedDraft(retryParsed)
                    /\ warnings' = IF retryParsed.assistantMessage = Undefined
                                   THEN Append(warnings, "retry") ELSE warnings
                    /\ CountOrReturn(adoptedDraft(retryParsed), retryData,
                                     Returned(dbCalls, FALSE, n))
                    /\ UNCHANGED llmCalls
               ELSE /\ CountOrReturn(parsed, data, Returned(dbCalls, FALSE, n))
                    /\ UNCHANGED <<parsed, data, warnings, llmCalls>>
  /\ UNCHANGED <<job, other, message, profileFeedback, conversationHistory, criticalFilters, contextSummary,
                 content, retryParsed, feedbackContext, checked>>

\* the value of a decimal numeral
DigitValue(c) == CHOOSE d \in 0..9 : ToString(d) = c
RECURSIVE decimal(_, _)
decimal(text, acc) ==
  IF text = "" THEN acc ELSE decimal(Tail(text), 10 * acc + DigitValue(CharAt(text, 1)))

\* Number(v) on a number or a string of digits
Number(v) == decimal(v.text, 0)

\* variant: a count that brings no total counts as zero
countedTotalOrZero(thrown, countResult, rowCount) ==
  IF ~thrown /\ Len(countResult) > 0 /\ "total" \in DOMAIN countResult[1]
  THEN Number(countResult[1].total) ELSE 0

\* lines 712-724: totalRows once the count query has returned or thrown
countedTotal(thrown, countResult, rowCount) ==
  IF ~thrown /\ Len(countResult) > 0 /\ "total" \in DOMAIN countResult[1]
  THEN Number(countResult[1].total) ELSE rowCount

\* lines 716-735: the count query returns or throws
CountReturn ==
  /\ pc = "count"
  /\ \E thrown \in BOOLEAN, countResult \in CountResults :
       LET total == countedTotal(thrown, countResult, totalRows)
       IN /\ thrown => countResult = <<>>
          /\ totalRows' = total
          /\ warnings' = IF thrown THEN Append(warnings, "count") ELSE warnings
          /\ result' = Success(parsed, data, total)
          /\ dbCalls' = [Returned(dbCalls, thrown, Len(countResult))
                           EXCEPT ![Len(dbCalls)].countResult = countResult]
  /\ pc' = "done"
  /\ UNCHANGED <<job, other, message, profileFeedback, conversationHistory, criticalFilters, contextSummary,
                 content, parsed, retryParsed, feedbackContext, data, llmCalls, checked>>

Next ==
  \/ Begin
  \/ DetailsReturn
  \/ SummaryReturn
  \/ DraftReturn
  \/ ExecReturn
  \/ RelaxDraftReturn
  \/ RelaxExecReturn
  \/ CountReturn

Spec == Init /\ [][Next]_vars

\* every external call that was issued returns or throws
FairSpec == Spec /\ WF_vars(Next)

----------------------------------------------------------------------------
(* extractCriticalFilters on its own: the turn is run up to its first await *)
(* on every feedback list over ExtractEntries                              *)

ExtractReasons == {"", "muito junior", "Muito Se^nior", "tem 10 anos de EXPERIE^NCIA"}

ExtractEntries ==
  {Entry("p1", i, r) : i \in BOOLEAN, r \in ExtractReasons}

InitExtract ==
  /\ pc = "start"
  /\ message = Message
  /\ profileFeedback \in SeqsUpTo(ExtractEntries, MaxExtractFeedback)
  /\ conversationHistory = History(0)
  /\ criticalFilters = <<>>
  /\ contextSummary = ""
  /\ content = EmptyContent
  /\ parsed = EmptyDraft
  /\ retryParsed = EmptyDraft
  /\ feedbackContext = <<>>
  /\ data = <<>>
  /\ totalRows = 0
  /\ result = NoResult
  /\ dbCalls = <<>>
  /\ llmCalls = <<>>
  /\ checked = {}
  /\ warnings = <<>>
  /\ other = NoFrame
  /\ job = NoJob

NextExtract == Begin

ExtractSpec == InitExtract /\ [][NextExtract]_vars

----------------------------------------------------------------------------
(* Two invocations of conversationalSearch on the one service instance     *)
(* (lines 20-28): the running one holds the variables of the turn, the     *)
(* other one is suspended at an await with its locals kept in other, and   *)
(* the event loop may resume either whenever the running one awaits        *)

\* the locals of the running invocation
Frame ==
  [pc |-> pc, message |-> message, profileFeedback |-> profileFeedback,
   conversationHistory |-> conversationHistory, criticalFilters |-> criticalFilters,
   contextSummary |-> contextSummary, content |-> content, parsed |-> parsed,
   retryParsed |-> retryParsed, feedbackContext |-> feedbackContext, data |-> data,
   totalRows |-> totalRows, result |-> result, dbCalls |-> dbCalls,
   llmCalls |-> llmCalls, checked |-> checked, warnings |-> warnings]

\* the locals of an invocation that has just been called
StartFrame(msg, feedback, history) ==
  [pc |-> "start", message |-> msg, profileFeedback |-> feedback, conversationHistory |-> history,
   criticalFilters |-> <<>>, contextSummary |-> "", content |-> EmptyContent,
   parsed |-> EmptyDraft, retryParsed |-> EmptyDraft, feedbackContext |-> <<>>,
   data |-> <<>>, totalRows |-> 0, result |-> NoResult, dbCalls |-> <<>>,
   llmCalls |-> <<>>, checked |-> {}, warnings |-> <<>>]

\* the running invocation is called with the locals f
Called(f) ==
  /\ pc = f.pc
  /\ message = f.message
  /\ profileFeedback = f.profileFeedback
  /\ conversationHistory = f.conversationHistory
  /\ criticalFilters = f.criticalFilters
  /\ contextSummary = f.contextSummary
  /\ content = f.content
  /\ parsed = f.parsed
  /\ retryParsed = f.retryParsed
  /\ feedbackContext = f.feedbackContext
  /\ data = f.data
  /\ totalRows = f.totalRows
  /\ result = f.result
  /\ dbCalls = f.dbCalls
  /\ llmCalls = f.llmCalls
  /\ checked = f.checked
  /\ warnings = f.warnings

\* the invocation with the locals f runs on from its await
Resume(f) ==
  /\ pc' = f.pc
  /\ message' = f.message
  /\ profileFeedback' = f.profileFeedback
  /\ conversationHistory' = f.conversationHistory
  /\ criticalFilters' = f.criticalFilters
  /\ contextSummary' = f.contextSummary
  /\ content' = f.content
  /\ parsed' = f.parsed
  /\ retryParsed' = f.retryParsed
  /\ feedbackContext' = f.feedbackContext
  /\ data' = f.data
  /\ totalRows' = f.totalRows
  /\ result' = f.result
  /\ dbCalls' = f.dbCalls
  /\ llmCalls' = f.llmCalls
  /\ checked' = f.checked
  /\ warnings' = f.warnings

\* one conversation has two "too senior" rejections and no history, the
\* other one a liked profile and a history long enough to be summarized
InitPair ==
  /\ Called(StartFrame(Message, <<Entry("p1", FALSE, "Muito Senior para a vaga"),
                         Entry("p1", FALSE, "Muito Senior para a vaga")>>, History(0)))
  /\ other = StartFrame(Message, <<Entry("p2", TRUE, "bom perfil")>>, History(7))
  /\ job = NoJob

\* variant: the critical filters are kept by the service, not by the invocation
SwitchSharedFilters ==
  /\ other # NoFrame
  /\ other' = Frame
  /\ Resume([other EXCEPT !.criticalFilters = criticalFilters])
  /\ UNCHANGED job

\* the running invocation is suspended at its await and the other one resumed
Switch ==
  /\ other # NoFrame
  /\ other' = Frame
  /\ Resume(other)
  /\ UNCHANGED job

\* the answers the two invocations are run with
PairContents ==
  {EmptyContent,
   Content("", TRUE, Draft(SqlPlain, CountPlain, "Encontrei candidatos", "o1"), ""),
   Content("Aqui esta/ o JSON: ", TRUE, Draft(SqlNoWhere, "", "Todos os perfis", "o3"), " Espero ter ajudado.")}

PairRelaxedDrafts ==
  {EmptyDraft,
   Draft(SqlRelaxedJunior, "", "Aqui esta~o mais candidatos", "r2")}

PairInputs ==
  /\ content \in PairContents
  /\ retryParsed \in PairRelaxedDrafts
  /\ Len(data) <= 1

TurnStep == Next /\ PairInputs'

PairNext == Switch \/ TurnStep

PairSpec == InitPair /\ [][PairNext]_vars

----------------------------------------------------------------------------
(* Two invocations called with the same feedback list and with different   *)
(* messages and histories: one has no history, the other one a history     *)
(* long enough to be summarized                                            *)

OtherMessage == "outra busca"

TwinFeedbacks ==
  {<<Entry("p1", FALSE, "Muito Senior para a vaga"), Entry("p1", FALSE, "Muito Senior para a vaga")>>,
   <<Entry("p1", FALSE, "Muito Senior para a vaga"), Entry("p2", TRUE, "bom perfil")>>}

InitTwin ==
  \E feedback \in TwinFeedbacks :
    /\ Called(StartFrame(Message, feedback, History(0)))
    /\ other = StartFrame(OtherMessage, feedback, History(7))
    /\ job = NoJob

TwinSpec == InitTwin /\ [][PairNext]_vars

----------------------------------------------------------------------------
(* JobsService (src/unnamed/part_000): processJobConversation, lines       *)
(* 49-175, createJob, lines 177-235, getMissingFields, lines 237-255.      *)
(* The locals of the call under way are the fields of job; of the job data *)
(* only the six required fields are kept, the others are never read by     *)
(* getMissingFields.                                                       *)

\* the variables of conversationalSearch, which a call of JobsService leaves alone
turnVars == <<pc, message, profileFeedback, conversationHistory, criticalFilters,
              contextSummary, content, parsed, retryParsed, feedbackContext,
              data, totalRows, result, dbCalls, llmCalls, checked, warnings, other>>

\* const requiredFields, lines 239-246
requiredFields == <<"title", "area", "seniority", "workFormat", "salary", "contractType">>

RequiredFieldSet == {requiredFields[i] : i \in DOMAIN requiredFields}

\* values of a field of the job data: the key is not there, null, a string,
\* an array of a given length
Absent == [type |-> "undefined"]
Null == [type |-> "null"]
Arr(n) == [type |-> "array", length |-> n]

\* !value, line 253
falsy(value) ==
  \/ value.type \in {"undefined", "null"}
  \/ value.type = "string" /\ value.text = ""

\* the callback of the filter of lines 248-254
fieldMissing(value) ==
  IF value.type = "array" THEN value.length = 0 ELSE falsy(value)

RECURSIVE missingAmong(_, _)
missingAmong(fields, jobData) ==
  IF fields = <<>> THEN <<>>
  ELSE (IF fieldMissing(jobData[Head(fields)]) THEN <<Head(fields)>> ELSE <<>>)
       \o missingAmong(Tail(fields), jobData)

\* lines 237-255
getMissingFields(jobData) == missingAmong(requiredFields, jobData)

\* lines 150-153: { ...currentJobData, ...parsed.extractedData }; a key of
\* extractedData replaces the key of currentJobData whatever its value
updatedJobData(current, extracted) ==
  [f \in RequiredFieldSet |-> IF extracted[f] # Absent THEN extracted[f] ELSE current[f]]

\* job data with a value for title and for contractType, v for the other fields
JobData(title, contractType, v) ==
  [f \in RequiredFieldSet |->
     IF f = "title" THEN title ELSE IF f = "contractType" THEN contractType ELSE v]

JobValues == {Absent, Null, JsonString(""), JsonString("Pleno"), Arr(0), Arr(2)}

\* currentJobData as the caller passes it: nothing collected yet, or four
\* fields collected and title and contractType in any condition
CurrentJobDatas ==
  {JobData(Absent, Absent, Absent)}
  \cup {JobData(t, c, JsonString("x")) : t, c \in {Absent, JsonString(""), JsonString("CLT")}}

\* extractedData of an answer: keys for title and contractType, or none
ExtractedDatas ==
  {JobData(t, c, Absent) : t, c \in JobValues}

\* the object of an answer, lines 125-130
JobAnswer(msg, extracted, isComplete) ==
  [assistantMessage |-> msg, extractedData |-> extracted, isComplete |-> isComplete]

JobAnswers ==
  {JobAnswer("Qual o formato de trabalho?", e, b) : e \in ExtractedDatas, b \in BOOLEAN}

\* the raw answers of the backend: the object alone, the object in prose,
\* prose only, prose with braces that hold no object, and nothing
JobContents ==
  {Content("", TRUE, a, "") : a \in JobAnswers}
  \cup {Content("Claro! ", TRUE, JobAnswer("Qual o sala/rio?", JobData(JsonString("Dev"), Absent, Absent), FALSE), "")}
  \cup {Content("Pode me dizer o ti/tulo da vaga?", FALSE, EmptyDraft, ""),
        Content("Resumo {incompleto", FALSE, EmptyDraft, ""),
        Content("Campos {title} e {area}", FALSE, EmptyDraft, ""),
        EmptyContent}

JobMessage == "vaga de dev pleno, CLT"

JobHistory == <<[role |-> "assistant", content |-> "Qual o nome da vaga?"]>>

\* jobData of createJob: the fields generateSearchQuery reads
CreateJobDto(title, seniority, skills, experience) ==
  [title |-> title, seniority |-> seniority, technicalSkills |-> skills,
   preferredExperience |-> experience]

CreateJobDtos ==
  {CreateJobDto("Dev Backend", "Pleno", <<"Node", "SQL", "AWS", "Go">>, "fintech"),
   CreateJobDto("Analista de RH", "", <<>>, "")}

\* the locals of a call that has just been made
JobCall(op, current, jobData, configured, folderId) ==
  [pc |-> "called", op |-> op, currentJobData |-> current, jobData |-> jobData,
   messages |-> <<>>, content |-> EmptyContent,
   configured |-> configured, folderId |-> folderId,
   clickUpListId |-> Undefined, clickUpListUrl |-> Undefined,
   clickUpTaskId |-> Undefined, clickUpTaskUrl |-> Undefined,
   clickUpCreated |-> FALSE, clickUpError |-> Undefined,
   clickUpCalls |-> <<>>, result |-> NoResult]

InitJobs ==
  /\ pc = "start"
  /\ message = Message
  /\ profileFeedback = <<>>
  /\ conversationHistory = History(0)
  /\ criticalFilters = <<>>
  /\ contextSummary = ""
  /\ content = EmptyContent
  /\ parsed = EmptyDraft
  /\ retryParsed = EmptyDraft
  /\ feedbackContext = <<>>
  /\ data = <<>>
  /\ totalRows = 0
  /\ result = NoResult
  /\ dbCalls = <<>>
  /\ llmCalls = <<>>
  /\ checked = {}
  /\ warnings = <<>>
  /\ other = NoFrame
  /\ job \in {JobCall("processJobConversation", current, CreateJobDto("", "", <<>>, ""), FALSE, "") :
                current \in CurrentJobDatas}
             \cup {JobCall("createJob", JobData(Absent, Absent, Absent), dto, configured, folderId) :
                     dto \in CreateJobDtos, configured \in BOOLEAN, folderId \in {"", "901"}}

\* lines 101-112: const messages
jobMessages(current, history, msg) ==
  <<[role |-> "system", content |-> "DADOS JA/ COLETADOS", data |-> current]>>
  \o history
  \o <<[role |-> "user", content |-> msg]>>

\* lines 54-117: up to the await of the backend call
ProcessJobCall ==
  /\ job.pc = "called" /\ job.op = "processJobConversation"
  /\ job' = [job EXCEPT !.pc = "backend",
                        !.messages = jobMessages(job.currentJobData, JobHistory, JobMessage)]
  /\ UNCHANGED turnVars

\* the value returned by processJobConversation
JobConversationResult(msg, jobData, isComplete, missingFields) ==
  [status |-> "ok", assistantMessage |-> msg, currentJobData |-> jobData,
   isComplete |-> isComplete, missingFields |-> missingFields]

\* lines 119-174: the backend call returns or throws
ProcessJobReturn ==
  /\ job.pc = "backend"
  /\ \E thrown \in BOOLEAN, c \in JobContents :
       IF thrown
       THEN /\ c = EmptyContent
            /\ job' = [job EXCEPT !.pc = "error", !.result = Failure("backend call failed")]
       ELSE IF rawText(c) = ""
       THEN job' = [job EXCEPT !.pc = "error", !.content = c,
                               !.result = Failure("OpenAI na~o retornou uma resposta va/lida")]
       ELSE IF parseOutcome(c) = "no-span"
       THEN job' = [job EXCEPT !.pc = "done", !.content = c,
                               !.result = JobConversationResult(rawText(c), job.currentJobData, FALSE,
                                            getMissingFields(job.currentJobData))]
       ELSE IF parseOutcome(c) = "span-invalid"
       THEN job' = [job EXCEPT !.pc = "error", !.content = c, !.result = Failure("SyntaxError")]
       ELSE LET updated == updatedJobData(job.currentJobData, c.obj.extractedData)
                missingFields == getMissingFields(updated)
            IN job' = [job EXCEPT !.pc = "done", !.content = c,
                                  !.result = JobConversationResult(c.obj.assistantMessage, updated,
                                               Len(missingFields) = 0, missingFields)]
  /\ UNCHANGED turnVars

\* technicalSkills.slice(0, 3)
firstThree(list) == IF Len(list) > 3 THEN SubSeq(list, 1, 3) ELSE list

\* lines 257-277
generateSearchQuery(jobData) ==
  join(<<"Busque " \o jobData.title>>
       \o (IF jobData.seniority # "" THEN <<"ni/vel " \o jobData.seniority>> ELSE <<>>)
       \o (IF Len(jobData.technicalSkills) > 0
           THEN <<"com conhecimento em " \o join(firstThree(jobData.technicalSkills), ", ")>>
           ELSE <<>>)
       \o (IF jobData.preferredExperience # ""
           THEN <<"preferencialmente com " \o jobData.preferredExperience>> ELSE <<>>),
       " ")

\* lines 225-234: the value returned by createJob
JobCreationResult(j) ==
  [status |-> "ok", job |-> j.jobData,
   clickUpListId |-> j.clickUpListId, clickUpListUrl |-> j.clickUpListUrl,
   clickUpTaskId |-> j.clickUpTaskId, clickUpTaskUrl |-> j.clickUpTaskUrl,
   searchQuery |-> generateSearchQuery(j.jobData),
   clickUpCreated |-> j.clickUpCreated, clickUpError |-> j.clickUpError]

\* createJob returns with the locals j
Returns(j) == [j EXCEPT !.pc = "done", !.result = JobCreationResult(j)]

\* what the calls of ClickUpService may throw, and the ids they may return
ClickUpErrors == {"ClickUp API error: 500", "fetch failed"}
ListIds == {"L1"}
TaskIds == {"T1"}

\* lines 177-195: up to the first await, or to the return when ClickUp is
\* not configured or has no folder
CreateJobBegin ==
  /\ job.pc = "called" /\ job.op = "createJob"
  /\ job' = IF job.configured
            THEN IF job.folderId # ""
                 THEN [job EXCEPT !.pc = "list",
                                  !.clickUpCalls = Append(@, "createListForJob")]
                 ELSE Returns([job EXCEPT !.clickUpError = "CLICKUP_FOLDER_ID na~o configurado"])
            ELSE Returns([job EXCEPT !.clickUpError = "ClickUp na~o configurado (falta CLICKUP_API_KEY)"])
  /\ UNCHANGED turnVars

\* variant: the job counts as created in ClickUp once its list is
ListReturnCreated ==
  /\ job.pc = "list"
  /\ \E thrown \in BOOLEAN, id \in ListIds, error \in ClickUpErrors :
       job' = IF thrown
              THEN Returns([job EXCEPT !.clickUpError = error])
              ELSE [job EXCEPT !.pc = "task",
                               !.clickUpListId = id,
                               !.clickUpListUrl = "https://app.clickup.com/" \o id,
                               !.clickUpCreated = TRUE,
                               !.clickUpCalls = Append(@, "createJobDescriptionTask")]
  /\ UNCHANGED turnVars

\* lines 192-203: createListForJob returns a list or throws
ListReturn ==
  /\ job.pc = "list"
  /\ \E thrown \in BOOLEAN, id \in ListIds, error \in ClickUpErrors :
       job' = IF thrown
              THEN Returns([job EXCEPT !.clickUpError = error])
              ELSE [job EXCEPT !.pc = "task",
                               !.clickUpListId = id,
                               !.clickUpListUrl = "https://app.clickup.com/" \o id,
                               !.clickUpCalls = Append(@, "createJobDescriptionTask")]
  /\ UNCHANGED turnVars

\* lines 200-234: createJobDescriptionTask returns a task or throws
TaskReturn ==
  /\ job.pc = "task"
  /\ \E thrown \in BOOLEAN, id \in TaskIds, error \in ClickUpErrors :
       job' = IF thrown
              THEN Returns([job EXCEPT !.clickUpError = error])
              ELSE Returns([job EXCEPT !.clickUpTaskId = id,
                                       !.clickUpTaskUrl = "https://app.clickup.com/t/" \o id,
                                       !.clickUpCreated = TRUE])
  /\ UNCHANGED turnVars

NextJobs ==
  \/ ProcessJobCall
  \/ ProcessJobReturn
  \/ CreateJobBegin
  \/ ListReturn
  \/ TaskReturn

JobsSpec == InitJobs /\ [][NextJobs]_vars

----------------------------------------------------------------------------
(* Properties *)

\* the reasons of the inputs that belong to the "too senior" family
TooSeniorReasons ==
  {"Muito Senior para a vaga", "Muito Se^nior", "tem 10 anos de EXPERIE^NCIA"}

\* not-interesting entries of a feedback list with a "too senior" reason
tooSeniorCount(feedback) ==
  Cardinality({i \in DOMAIN feedback :
                 ~feedback[i].interesting /\ feedback[i].reason \in TooSeniorReasons})

\* the text restricts seniority to the two junior tiers
hasJuniorRestriction(sql) ==
  \/ includes(toLowerCase(sql), "seniority in ('estagiario / trainee', 'analista')")
  \/ includes(toLowerCase(sql), "seniority_order <= 2")

OrigEmpty ==
  \E i \in DOMAIN dbCalls :
    /\ dbCalls[i].kind = "data" /\ dbCalls[i].draft = "original"
    /\ dbCalls[i].outcome = "rows" /\ dbCalls[i].rows = 0

RelaxedEmpty ==
  \E i \in DOMAIN dbCalls :
    /\ dbCalls[i].kind = "data" /\ dbCalls[i].draft = "relaxed"
    /\ dbCalls[i].outcome = "rows" /\ dbCalls[i].rows = 0

\* C1: with two or more "too senior" rejections, the query of every
\* successful result contains the junior-tier restriction and is the query
\* whose execution produced the returned rows.
C1_ReturnedQueryIsJunior ==
  (result.status = "ok" /\ tooSeniorCount(profileFeedback) >= 2)
    => /\ hasJuniorRestriction(result.query)
       /\ \A i \in DOMAIN result.data : result.data[i].q = result.query

\* C2: every drafted query sent to the store, the original and the relaxed
\* one, went through the critical-filter check of the turn before.
C2_CheckedBeforeExecuted ==
  \A i \in DOMAIN dbCalls : dbCalls[i].kind = "data" => dbCalls[i].draft \in checked

\* C3 as stated: a turn makes at most two calls to the store.
C3_AtMostTwoStoreCalls == Len(dbCalls) <= 2

\* C3 amended: a turn executes at most two drafted queries (the original and
\* at most one relaxed); with the details lookup and the count query the
\* store is called at most four times.
C3_AtMostTwoDraftedQueries ==
  /\ NumData("original") <= 1
  /\ NumData("relaxed") <= 1
  /\ NumDb("details") <= 1
  /\ NumDb("count") <= 1
  /\ Len(dbCalls) <= 4

C3_FourStoreCalls == pc = "done" /\ Len(dbCalls) = 4 /\ NumDb("data") = 2

\* C4: a turn requests at most one draft and at most one relaxed draft, and
\* it ends, with a result or an error, once every call has come back.
C4_BoundedDrafting ==
  /\ [](NumLlm("draft") <= 1 /\ NumLlm("relaxed") <= 1)
  /\ <>(pc \in {"done", "error"})

C4_TurnWithRelaxedDraft ==
  pc = "done" /\ NumLlm("draft") = 1 /\ NumLlm("relaxed") = 1 /\ NumData("relaxed") = 1

\* C5 as stated: after an empty first result exactly one relaxed draft is
\* generated and executed, and after an empty relaxed result the turn returns
\* no rows and calls neither the backend nor the store again.
C5_RelaxedExecutedNoFurtherCalls ==
  (pc = "done" /\ OrigEmpty)
    => /\ NumLlm("relaxed") = 1
       /\ NumData("relaxed") = 1
       /\ RelaxedEmpty =>
            /\ Len(result.data) = 0
            /\ dbCalls[Len(dbCalls)].kind = "data"
            /\ llmCalls[Len(llmCalls)].kind = "relaxed"

\* C5 amended: after an empty first result exactly one relaxed draft is
\* requested and it is executed at most once, exactly once when it parses and
\* carries a query; after an empty relaxed result the turn returns no rows,
\* requests no further draft and executes no further drafted query: the only
\* later call is the count query of the original draft.
C5_OneRelaxedRequest ==
  OrigEmpty
    => /\ NumLlm("relaxed") = 1
       /\ NumData("relaxed") <= 1
       /\ retryParsed.sql # "" => NumData("relaxed") = 1
       /\ RelaxedEmpty =>
            /\ pc \in {"count", "done"}
            /\ pc = "done" => Len(result.data) = 0
            /\ llmCalls[Len(llmCalls)].kind = "relaxed"
            /\ \A i \in DOMAIN dbCalls :
                 (i < Len(dbCalls) /\ dbCalls[i].draft = "relaxed")
                   => /\ i + 1 = Len(dbCalls)
                      /\ dbCalls[i + 1].kind = "count"
                      /\ dbCalls[i + 1].sql = content.obj.countSql

C5_CountAfterEmptyRelaxed ==
  /\ pc = "done" /\ OrigEmpty /\ RelaxedEmpty
  /\ dbCalls[Len(dbCalls)].kind = "count"
  /\ Len(result.data) = 0

\* the state of the relaxation controller
relaxState == IF NumLlm("relaxed") > 0 THEN "relaxed" ELSE "initial"

\* C6: a relaxed draft is requested exactly when the first query returned no
\* row, and once requested the controller stays relaxed and requests no other.
C6_RelaxIffEmpty ==
  /\ [](relaxState = "relaxed" <=> OrigEmpty)
  /\ [][relaxState = "relaxed" => (relaxState' = "relaxed" /\ llmCalls' = llmCalls)]_vars

C6_RelaxedWithRows ==
  /\ pc = "done" /\ relaxState = "relaxed"
  /\ \E i \in DOMAIN dbCalls : dbCalls[i].draft = "relaxed" /\ dbCalls[i].rows > 0

\* C7: no filter on seniority is emitted with fewer than two "too senior"
\* rejections, both are emitted with two or more; interesting entries do not
\* count.
C7_SeniorityThreshold ==
  pc # "start"
    => IF tooSeniorCount(profileFeedback) < 2
       THEN \A i \in DOMAIN criticalFilters : ~includes(criticalFilters[i], "seniority")
       ELSE /\ Len(criticalFilters) >= 2
            /\ criticalFilters[1] = SeniorityFilter
            /\ criticalFilters[2] = SeniorityOrderFilter

C7_OneRejectionOneLike ==
  /\ pc # "start"
  /\ tooSeniorCount(profileFeedback) = 1
  /\ \E i \in DOMAIN profileFeedback :
       profileFeedback[i].interesting /\ profileFeedback[i].reason \in TooSeniorReasons
  /\ criticalFilters = <<>>

Permuted(list, perm) == [i \in DOMAIN list |-> list[perm[i]]]

\* C8: the filters computed by the turn are those of every reordering of the
\* feedback list, and computing them leaves the feedback list as it was.
C8_OrderIndependent ==
  /\ [](pc # "start"
         => \A perm \in Permutations(DOMAIN profileFeedback) :
              extractCriticalFilters(Permuted(profileFeedback, perm)) = criticalFilters)
  /\ [][profileFeedback' = profileFeedback /\ conversationHistory' = conversationHistory]_vars

C8_MixedList ==
  /\ pc # "start"
  /\ Len(profileFeedback) = 3
  /\ profileFeedback[1].interesting /\ ~profileFeedback[2].interesting
  /\ criticalFilters = <<SeniorityFilter, SeniorityOrderFilter>>

JuniorKeywords == {"estagiario", "trainee", "analista", "seniority_order"}

Occurrences(s, kw) == Cardinality(Positions(s, kw))

\* C9: a drafted query that already contains one of the keywords of the
\* seniority predicate leaves the check as it entered it, and the check never
\* brings a keyword to a second occurrence.
C9_NoDuplicatePredicate ==
  pc = "exec"
    => /\ (\E kw \in JuniorKeywords : includes(toLowerCase(content.obj.sql), kw))
            => parsed.sql = content.obj.sql
       /\ \A kw \in JuniorKeywords :
            Occurrences(toLowerCase(parsed.sql), kw)
              <= IF Occurrences(toLowerCase(content.obj.sql), kw) > 0
                 THEN Occurrences(toLowerCase(content.obj.sql), kw) ELSE 1

C9_KeywordAlreadyPresent ==
  /\ pc = "exec"
  /\ criticalFilters = <<SeniorityFilter, SeniorityOrderFilter>>
  /\ content.obj.sql = SqlJunior
  /\ parsed.sql = SqlJunior

\* C10: a turn fails only on the first backend answer, when it cannot be
\* parsed or carries no query; no other failing call makes the turn fail.
C10_OnlyFirstAnswerAborts ==
  pc = "error"
    => result.error \in {"drafting call failed",
                         "OpenAI na~o retornou uma resposta va/lida",
                         "Na~o foi possi/vel parsear resposta da OpenAI",
                         "SyntaxError",
                         "A resposta na~o conte/m uma query SQL"}

\* the first answer yields no draft with a query: it is empty, neither
\* JSON.parse(content) nor JSON.parse of the brace span succeeds, or the parsed
\* object has no sql
firstAnswerUnusable ==
  \/ rawText(content) = ""
  \/ ~jsonParses(rawText(content)) /\ ~jsonParses(matchBraces(rawText(content)))
  \/ content.obj.sql = ""

\* the first drafting call has come back
firstAnswerIn == pc \notin {"start", "details", "summary", "draft"}

\* C11: when the first answer cannot be parsed by either tier, or has no
\* query, the turn ends with an error and has executed no drafted query,
\* requested no relaxed draft and run no count query.
C11_UnusableAnswerAborts ==
  (firstAnswerIn /\ firstAnswerUnusable)
    => /\ pc = "error"
       /\ result.status = "error"
       /\ NumDb("data") = 0
       /\ NumDb("count") = 0
       /\ NumLlm("relaxed") = 0

C11_ObjectWithoutQuery ==
  /\ pc = "error"
  /\ content.hasObj /\ jsonParses(matchBraces(rawText(content)))
  /\ content.obj.sql = ""
  /\ result.error = "A resposta na~o conte/m uma query SQL"

\* the data call made for a draft has come back with the given outcome
DataOutcome(draft, outcome) ==
  \E i \in DOMAIN dbCalls :
    dbCalls[i].kind = "data" /\ dbCalls[i].draft = draft /\ dbCalls[i].outcome = outcome

RelaxedRows ==
  \E i \in DOMAIN dbCalls :
    /\ dbCalls[i].kind = "data" /\ dbCalls[i].draft = "relaxed"
    /\ dbCalls[i].outcome = "rows" /\ dbCalls[i].rows > 0

\* the relaxation step of a finished turn failed: the relaxed drafting call
\* threw, its answer gave no query to execute, the relaxed query threw, or
\* reading the message of the relaxed draft threw
relaxationFailed ==
  /\ NumLlm("relaxed") = 1
  /\ pc \in {"done", "error"}
  /\ \/ pc = "error"
     \/ NumData("relaxed") = 0
     \/ DataOutcome("relaxed", "thrown")
     \/ RelaxedRows /\ retryParsed.assistantMessage = Undefined

\* the first draft, as it left the check of lines 625-649
originalDraft ==
  [content.obj EXCEPT !.sql = enforceCriticalFilters(criticalFilters, content.obj.sql)]

\* C12: when the relaxation step fails, the turn succeeds and returns the
\* query, explanation and message of the original draft with the original
\* empty list of rows.
C12_FailedRelaxationKeepsOriginal ==
  relaxationFailed
    => /\ result.status = "ok"
       /\ result.query = originalDraft.sql
       /\ result.explanation = originalDraft.explanation
       /\ result.assistantMessage = originalDraft.assistantMessage
       /\ result.data = <<>>

\* the count call of the turn, when it has returned a row with a total
CountedRow(i) ==
  /\ dbCalls[i].kind = "count" /\ dbCalls[i].outcome = "rows"
  /\ Len(dbCalls[i].countResult) > 0
  /\ "total" \in DOMAIN dbCalls[i].countResult[1]

\* C13: with a count query in the adopted draft, totalRows of the result is
\* the total of the count query's row; when the count query throws, returns
\* no row or no total, and when the draft has no count query, the turn
\* succeeds with totalRows the number of rows returned.
C13_TotalRows ==
  pc = "done"
    => /\ result.status = "ok"
       /\ IF parsed.countSql # ""
          THEN /\ NumDb("count") = 1
               /\ dbCalls[Len(dbCalls)].kind = "count"
               /\ dbCalls[Len(dbCalls)].sql = parsed.countSql
               /\ dbCalls[Len(dbCalls)].outcome \in {"rows", "thrown"}
               /\ IF CountedRow(Len(dbCalls))
                  THEN \E n \in {0, 12} :
                         /\ dbCalls[Len(dbCalls)].countResult[1].total.text = ToString(n)
                         /\ result.totalRows = n
                  ELSE result.totalRows = Len(result.data)
          ELSE /\ NumDb("count") = 0
               /\ result.totalRows = Len(result.data)

C13_CountThrownFallsBack ==
  /\ pc = "done"
  /\ dbCalls[Len(dbCalls)].kind = "count" /\ dbCalls[Len(dbCalls)].outcome = "thrown"
  /\ Len(result.data) > 0
  /\ result.totalRows = Len(result.data)

C13_QuotedTotal ==
  /\ pc = "done"
  /\ CountedRow(Len(dbCalls))
  /\ dbCalls[Len(dbCalls)].countResult[1].total = JsonString("12")
  /\ result.totalRows = 12

\* the summarizer's backend call threw (line 346 logs it)
SummaryFailed == \E i \in DOMAIN warnings : warnings[i] = "summary"

\* the system message of the drafting request
DraftPrompt ==
  LET i == CHOOSE j \in DOMAIN llmCalls : llmCalls[j].kind = "draft"
  IN llmCalls[i].messages[1].content

\* C14: when the summarizer's backend call fails the summary is the empty
\* string, the drafting request goes out with no summary section in its
\* prompt, and the return of the summarizer never ends the turn.
C14_SummaryFailureIsEmpty ==
  /\ [](SummaryFailed
          => /\ contextSummary = ""
             /\ NumLlm("draft") = 1
             /\ ~includes(DraftPrompt, "RESUMO DO CONTEXTO"))
  /\ [][pc = "summary" => pc' = "draft"]_vars

C14_TurnDoneAfterFailedSummary ==
  /\ pc = "done" /\ result.status = "ok"
  /\ SummaryFailed
  /\ Len(conversationHistory) > 6

\* the first answer is prose around one serialized object: the text is not
\* valid JSON as a whole and its first balanced brace span is the object
proseAroundObject(c) ==
  /\ c.hasObj
  /\ ~jsonParses(rawText(c))
  /\ firstBalancedSpan(rawText(c)) = ObjText

ParseErrors ==
  {"SyntaxError", "Na~o foi possi/vel parsear resposta da OpenAI"}

\* C15: a first answer made of prose around one balanced-brace object is
\* parsed to that object, and the span parsed after the strict parse failed
\* is the first balanced brace span of the text.
C15_ProseWrappedObjectParses ==
  (firstAnswerIn /\ proseAroundObject(content))
    => /\ matchBraces(rawText(content)) = firstBalancedSpan(rawText(content))
       /\ parseOutcome(content) = "span"
       /\ (pc = "error" => result.error \notin ParseErrors)

\* what an invocation holds is what a turn run on its own arguments holds:
\* the filters of its feedback, the drafting request built from its history
\* and feedback, rows that answer its query, and a result made of its draft
OwnState(f) ==
  /\ f.pc # "start" => f.criticalFilters = extractCriticalFilters(f.profileFeedback)
  /\ \A i \in DOMAIN f.llmCalls :
       f.llmCalls[i].kind = "draft"
         => f.llmCalls[i] = draftRequest(f.message, f.conversationHistory, f.feedbackContext, f.contextSummary)
  /\ \A i \in DOMAIN f.dbCalls :
       f.dbCalls[i].kind = "data"
         => f.dbCalls[i].sql \in
              {enforceCriticalFilters(extractCriticalFilters(f.profileFeedback), f.content.obj.sql),
               f.retryParsed.sql}
  /\ \A i \in DOMAIN f.data : f.data[i].q = f.parsed.sql
  /\ f.pc = "done" => f.result = Success(f.parsed, f.data, f.totalRows)

\* C16: of two invocations interleaved at their awaits, the running one
\* holds the state of a turn run alone on its own arguments, and each step
\* either leaves the locals of the suspended one as they were or suspends the
\* running one and resumes the other with the locals it was suspended with.
C16_InvocationsIndependent ==
  /\ [](OwnState(Frame))
  /\ [][\/ other' = other
        \/ other' = Frame /\ Frame' = other]_vars

C16_BothDoneInterleaved ==
  /\ pc = "done" /\ other.pc = "done"
  /\ criticalFilters # other.criticalFilters
  /\ result.query # other.result.query
  /\ NumLlm("relaxed") = 1

\* the message already speaks of the relaxation (the test of lines 697-700)
hasRelaxationVocabulary(msg) == includes(msg, "relaxe") \/ includes(msg, "ampli")

\* msg starts with the disclosure of line 701
startsWithNotice(msg) == OccursAt(msg, RelaxationNotice, 1)

\* C17: when the relaxed query brought rows the message returned is the
\* relaxed draft's message with the disclosure in front, or as it is when it
\* already has relaxation vocabulary; otherwise it is the original draft's
\* message without the disclosure.
C17_DisclosedMessage ==
  pc = "done"
    => IF RelaxedRows
       THEN result.assistantMessage =
              IF hasRelaxationVocabulary(retryParsed.assistantMessage)
              THEN retryParsed.assistantMessage
              ELSE RelaxationNotice \o retryParsed.assistantMessage
       ELSE /\ result.assistantMessage = content.obj.assistantMessage
            /\ ~startsWithNotice(result.assistantMessage)

\* the seniority filters are in force and the first draft has none of the
\* keywords of the seniority predicate
SeniorityMissing ==
  /\ \E i \in DOMAIN criticalFilters : includes(criticalFilters[i], "seniority")
  /\ \A kw \in JuniorKeywords : ~includes(toLowerCase(content.obj.sql), kw)

SeniorityWarned == \E i \in DOMAIN warnings : warnings[i] = "seniority"

\* C18: when the seniority constraint is missing from a draft that has no
\* WHERE keyword, a warning is recorded and the draft is sent to the store
\* with its text as drafted; the check does not end the turn.
C18_NoWhereLeftUnmodified ==
  (firstAnswerIn /\ criticalFilters # <<>> /\ ~firstAnswerUnusable /\ SeniorityMissing
     /\ ~includes(toLowerCase(content.obj.sql), "where"))
    => /\ SeniorityWarned
       /\ NumData("original") = 1
       /\ \A i \in DOMAIN dbCalls :
            (dbCalls[i].kind = "data" /\ dbCalls[i].draft = "original")
              => dbCalls[i].sql = content.obj.sql
       /\ (pc = "error" => DataOutcome("original", "thrown") \/ NumLlm("relaxed") = 1)

C18_UnmodifiedQueryReturned ==
  /\ pc = "done"
  /\ SeniorityMissing /\ SeniorityWarned
  /\ content.obj.sql = SqlNoWhere
  /\ result.query = SqlNoWhere
  /\ Len(result.data) > 0

\* the order of the awaits of a turn
StepRank ==
  [p \in {"start", "details", "summary", "draft", "exec", "relaxDraft", "relaxExec",
          "count", "done", "error"} |->
     CASE p = "start" -> 0 [] p = "details" -> 1 [] p = "summary" -> 2
       [] p = "draft" -> 3 [] p = "exec" -> 4 [] p = "relaxDraft" -> 5
       [] p = "relaxExec" -> 6 [] p = "count" -> 7 [] OTHER -> 8]

\* position of the first call of a kind in the log of backend calls, 0 if none
FirstLlm(kind) ==
  IF NumLlm(kind) = 0 THEN 0
  ELSE CHOOSE i \in DOMAIN llmCalls :
         llmCalls[i].kind = kind /\ \A j \in 1..(i - 1) : llmCalls[j].kind # kind

\* what the logs of a turn show of the order of its steps
AwaitedInOrder ==
  /\ (NumLlm("draft") > 0 /\ Len(conversationHistory) > 6)
       => /\ FirstLlm("summary") = 1 /\ FirstLlm("draft") = 2
          /\ pc # "summary"
  /\ NumData("original") > 0
       => /\ NumLlm("draft") = 1 /\ pc # "draft"
          /\ "original" \in checked
          /\ ~firstAnswerUnusable
  /\ NumLlm("relaxed") > 0
       => /\ OrigEmpty
          /\ FirstLlm("relaxed") = Len(llmCalls)
  /\ \A i \in DOMAIN dbCalls :
       dbCalls[i].outcome = "pending"
         => i = Len(dbCalls) /\ pc \in {"details", "exec", "relaxExec", "count"}

\* C19: the summary, when the history calls for one, has come back before the
\* drafting request goes out; the draft has come back and been checked before
\* its query is sent; the relaxed request goes out only after the query came
\* back empty; and the awaits follow one another in that order.
C19_StepsInOrder ==
  /\ [](AwaitedInOrder)
  /\ [][StepRank[pc'] > StepRank[pc]]_vars

C19_AllStepsTaken ==
  /\ pc = "done"
  /\ FirstLlm("summary") = 1 /\ FirstLlm("draft") = 2 /\ FirstLlm("relaxed") = 3
  /\ NumData("original") = 1 /\ NumData("relaxed") = 1

\* number of occurrences of the character c among the first n of s
CountUpTo(s, c, n) == Cardinality({p \in Positions(s, c) : p <= n})

\* the parentheses of a text are balanced
balancedParens(s) ==
  /\ CountUpTo(s, "(", Len(s)) = CountUpTo(s, ")", Len(s))
  /\ \A n \in 1..Len(s) : CountUpTo(s, "(", n) >= CountUpTo(s, ")", n)

\* where the ordering/limit tail of a filter text starts: the first ORDER BY
\* or LIMIT outside parentheses, one past the end when there is none
tailStart(rest) ==
  LET low == toLowerCase(rest)
      ps == {p \in 1..Len(rest) :
               /\ OccursAt(low, "order by", p) \/ OccursAt(low, "limit", p)
               /\ CountUpTo(rest, "(", p) = CountUpTo(rest, ")", p)}
  IN IF ps = {} THEN Len(rest) + 1 ELSE CHOOSE p \in ps : \A q \in ps : p <= q

SeniorityPredicate ==
  "(seniority IN ('ESTAGIARIO / TRAINEE', 'ANALISTA') OR seniority_order <= 2)"

\* the patched form of a draft with one WHERE: the text before WHERE, the
\* seniority predicate, the whole original filter in one group, then the tail
wellFormedPatch(sql) ==
  LET before == splitWhere(sql)[1]
      rest == splitWhere(sql)[2]
      t == tailStart(rest)
  IN before \o "WHERE " \o SeniorityPredicate \o " AND ("
     \o SubSeq(rest, 1, t - 1) \o ")" \o SubSeq(rest, t, Len(rest))

\* the query of the first draft as it was sent to the store
ExecutedOriginal ==
  LET i == CHOOSE j \in DOMAIN dbCalls :
             dbCalls[j].kind = "data" /\ dbCalls[j].draft = "original"
  IN dbCalls[i].sql

\* C20: a patched draft with balanced parentheses and one WHERE keyword is
\* sent as <before WHERE> WHERE (<predicate>) AND (<filter>) <tail>, with
\* balanced parentheses and with the text before WHERE and the tail as drafted.
C20_PatchedFormIsWellFormed ==
  (NumData("original") = 1 /\ SeniorityMissing
     /\ Len(splitWhere(content.obj.sql)) = 2 /\ balancedParens(content.obj.sql))
    => /\ ExecutedOriginal = wellFormedPatch(content.obj.sql)
       /\ balancedParens(ExecutedOriginal)

\* the dialogue of the drafting request: its messages after the system one
DraftDialogue ==
  LET i == CHOOSE j \in DOMAIN llmCalls : llmCalls[j].kind = "draft"
  IN Tail(llmCalls[i].messages)

\* C21: the dialogue sent to the drafting backend is the last 8 turns of the
\* history at most (all of them when there are 8 or fewer), each in its place
\* and once, followed by the new message as the final turn.
C21_WindowedDialogue ==
  NumLlm("draft") > 0
    => LET n == Len(conversationHistory)
           k == IF n > 8 THEN 8 ELSE n
       IN /\ Len(DraftDialogue) = k + 1
          /\ \A i \in 1..k : DraftDialogue[i] = conversationHistory[n - k + i]
          /\ DraftDialogue[k + 1] = [role |-> "user", content |-> message]
          /\ n <= 8 => SubSeq(DraftDialogue, 1, n) = conversationHistory

C21_OldestTurnLeftOut ==
  /\ pc = "done"
  /\ Len(conversationHistory) > 8
  /\ Len(DraftDialogue) = 9
  /\ DraftDialogue[1] = conversationHistory[Len(conversationHistory) - 7]
  /\ DraftDialogue[1] # conversationHistory[1]

\* the turn is past the test of line 490
pastSummaryTest == pc \notin {"start", "details"}

\* C22: the summarizer is invoked in a turn exactly when the history has more
\* than 6 turns, and at most once.
C22_SummarizerIffLongHistory ==
  /\ NumLlm("summary") <= 1
  /\ NumLlm("summary") = 1 => Len(conversationHistory) > 6
  /\ (pastSummaryTest /\ Len(conversationHistory) > 6) => NumLlm("summary") = 1
  /\ (pastSummaryTest /\ Len(conversationHistory) <= 6) => NumLlm("summary") = 0

C22_SevenTurnsSummarized ==
  /\ pc = "done"
  /\ Len(conversationHistory) = 7
  /\ NumLlm("summary") = 1
  /\ llmCalls[1] = summaryRequest(conversationHistory)


\* both invocations have computed their filters
BothPastStart == pc # "start" /\ other.pc # "start"

\* two invocations with one feedback list hold the same critical filters
SameFilters ==
  (profileFeedback = other.profileFeedback /\ BothPastStart)
    => criticalFilters = other.criticalFilters

\* C23: two turns with the same feedback list and different messages,
\* histories and context summaries hold the same critical filters, and the
\* step that brings the context summary leaves the critical filters as they
\* were.
C23_FiltersFromFeedbackOnly ==
  /\ [](SameFilters)
  /\ [][(other' = other /\ contextSummary' # contextSummary)
          => criticalFilters' = criticalFilters]_vars

C23_SummarizedAndNot ==
  /\ pc = "done" /\ other.pc = "done"
  /\ message # other.message
  /\ conversationHistory # other.conversationHistory
  /\ contextSummary # other.contextSummary
  /\ criticalFilters = other.criticalFilters
  /\ criticalFilters # <<>>

\* not-interesting entries whose reason meets the condition of line 371
seniorEntries(feedback) ==
  {i \in DOMAIN feedback :
     ~feedback[i].interesting /\ seniorReason(toLowerCase(feedback[i].reason))}

\* the same entries, each under a profile id of its own
distinctIds(feedback) ==
  [i \in DOMAIN feedback |-> [feedback[i] EXCEPT !.profileId = "q" \o ToString(i)]]

\* two not-interesting "too senior" entries of one profile
repeatedProfile(feedback) ==
  \E i, j \in seniorEntries(feedback) :
    i < j /\ feedback[i].profileId = feedback[j].profileId

hasSeniorityPair(filters) ==
  /\ Len(filters) >= 2
  /\ filters[1] = SeniorityFilter
  /\ filters[2] = SeniorityOrderFilter

\* C24: the seniority filters are emitted exactly when two or more
\* not-interesting entries are "too senior", entries of one profile counted
\* one by one, and the filters are those of the same entries given to
\* different profiles.
C24_EntriesCountSeparately ==
  pc # "start"
    => /\ hasSeniorityPair(criticalFilters) <=> Cardinality(seniorEntries(profileFeedback)) >= 2
       /\ repeatedProfile(profileFeedback) => hasSeniorityPair(criticalFilters)
       /\ criticalFilters = extractCriticalFilters(distinctIds(profileFeedback))

C24_TwoEntriesOneProfile ==
  /\ pc # "start"
  /\ Len(profileFeedback) = 2
  /\ repeatedProfile(profileFeedback)
  /\ profileFeedback[1].reason # profileFeedback[2].reason
  /\ hasSeniorityPair(criticalFilters)

\* the data call whose rows the turn returns
ProducingCall ==
  CHOOSE i \in DOMAIN dbCalls :
    /\ dbCalls[i].kind = "data"
    /\ dbCalls[i].draft = IF RelaxedRows THEN "relaxed" ELSE "original"

\* the draft a finished turn has to answer with: the relaxed one when its
\* query brought rows, otherwise the first one with its query as it left the
\* check and was executed
DraftOfResult ==
  IF RelaxedRows THEN retryParsed
  ELSE [content.obj EXCEPT !.sql = dbCalls[ProducingCall].sql]

\* C25: the query of a successful result is the text of the data call that
\* produced the rows returned, and the query, explanation, search criteria,
\* message body and count query are those of one draft: the relaxed one
\* when its execution returned a row, the original one otherwise.
C25_ResultFromOneDraft ==
  pc = "done"
    => LET call == dbCalls[ProducingCall]
           draft == DraftOfResult
       IN /\ result.status = "ok"
          /\ call.sql = result.query
          /\ call.outcome = "rows"
          /\ call.rows = Len(result.data)
          /\ \A i \in DOMAIN result.data : result.data[i].q = result.query
          /\ result.query = draft.sql
          /\ result.explanation = draft.explanation
          /\ result.searchCriteria = draft.searchCriteria
          /\ result.assistantMessage \in
               {draft.assistantMessage}
               \cup (IF RelaxedRows THEN {RelaxationNotice \o draft.assistantMessage}
                     ELSE {})
          /\ \A i \in DOMAIN dbCalls :
               dbCalls[i].kind = "count" => dbCalls[i].sql = draft.countSql
          /\ NumDb("count") = IF draft.countSql # "" THEN 1 ELSE 0
          /\ (Len(result.data) > 0 /\ OrigEmpty) <=> RelaxedRows

C25_RelaxedDraftAdopted ==
  /\ pc = "done"
  /\ RelaxedRows
  /\ result.query = retryParsed.sql
  /\ result.explanation = retryParsed.explanation
  /\ result.explanation # content.obj.explanation
  /\ dbCalls[Len(dbCalls)].kind = "count"
  /\ dbCalls[Len(dbCalls)].sql = retryParsed.countSql

\* the check of lines 625-649 changed the text of the first draft's query
OriginalPatched ==
  /\ NumData("original") = 1
  /\ ExecutedOriginal # content.obj.sql
  /\ hasJuniorRestriction(ExecutedOriginal)

\* C26: when the check patched the data query with the seniority
\* restriction and the turn returns that query, the count query executed for
\* totalRows carries the restriction as well.
C26_CountCarriesRestriction ==
  (pc = "done" /\ OriginalPatched /\ ~RelaxedRows)
    => \A i \in DOMAIN dbCalls :
         dbCalls[i].kind = "count" => hasJuniorRestriction(dbCalls[i].sql)

\* history turns that are not in the messages of the drafting request
OmittedTurns == 1..(Len(conversationHistory) - 8)

\* the text the summarizer's backend was asked to summarize
SummarizedText == llmCalls[FirstLlm("summary")].messages[2].content

\* a line of a text made of lines
hasLine(text, line) == includes("\n" \o text \o "\n", "\n" \o line \o "\n")

\* C27: when the drafting request leaves history turns out, the summarizer
\* was called before it, in the same turn, on the whole history: every
\* user turn, the omitted ones included, is in the text it was given.
C27_OmittedTurnsSummarized ==
  (NumLlm("draft") > 0 /\ OmittedTurns # {})
    => /\ NumLlm("summary") = 1
       /\ FirstLlm("summary") < FirstLlm("draft")
       /\ \A i \in DOMAIN conversationHistory :
            conversationHistory[i].role = "user"
              => hasLine(SummarizedText, conversationHistory[i].content)
       /\ \A i \in OmittedTurns : conversationHistory[i] \notin
            {DraftDialogue[j] : j \in DOMAIN DraftDialogue}

C27_TurnOmittedAfterFailedSummary ==
  /\ pc = "done"
  /\ OmittedTurns # {}
  /\ conversationHistory[1].role = "user"
  /\ hasLine(SummarizedText, conversationHistory[1].content)
  /\ SummaryFailed

\* C28: the filters of a feedback list are the empty list, the two seniority
\* filters in their order, or those two followed by the experience directive;
\* the experience directive never comes without the two before it.
C28_ThreeFilterLists ==
  pc # "start"
    => /\ criticalFilters \in {<<>>,
                               <<SeniorityFilter, SeniorityOrderFilter>>,
                               <<SeniorityFilter, SeniorityOrderFilter, ExperienceFilter>>}
       /\ \A i \in DOMAIN criticalFilters :
            criticalFilters[i] = ExperienceFilter
              => i = 3 /\ hasSeniorityPair(criticalFilters)

C28_AllThreeFilters ==
  /\ pc # "start"
  /\ criticalFilters = <<SeniorityFilter, SeniorityOrderFilter, ExperienceFilter>>
  /\ \E i \in DOMAIN profileFeedback : profileFeedback[i].interesting

\* a call of processJobConversation has returned
JobConversationDone == job.op = "processJobConversation" /\ job.pc = "done"

\* C29: every result of processJobConversation has isComplete true exactly
\* when its missingFields is empty, and missingFields is the list of the
\* required fields missing from the currentJobData returned.
C29_CompleteIffNothingMissing ==
  JobConversationDone
    => /\ job.result.missingFields = getMissingFields(job.result.currentJobData)
       /\ job.result.isComplete <=> (job.result.missingFields = <<>>)


\* ids and error of a result of createJob
isSet(v) == v # Undefined

\* a call of createJob has returned
CreateJobDone == job.op = "createJob" /\ job.pc = "done"

\* C30: createJob returns a result whatever ClickUpService does; in every
\* result clickUpCreated is true exactly when clickUpError is not set, and
\* with clickUpCreated true the ids of the list and of the task are set.
C30_ClickUpOutcome ==
  /\ job.op = "createJob" => job.pc # "error"
  /\ CreateJobDone
       => /\ job.result.status = "ok"
          /\ job.result.clickUpCreated <=> ~isSet(job.result.clickUpError)
          /\ job.result.clickUpCreated
               => isSet(job.result.clickUpListId) /\ isSet(job.result.clickUpTaskId)
          /\ job.result.clickUpError \in ClickUpErrors
               => Len(job.clickUpCalls) >= 1

C30_ListWithoutTask ==
  /\ CreateJobDone
  /\ isSet(job.result.clickUpListId)
  /\ ~isSet(job.result.clickUpTaskId)
  /\ ~job.result.clickUpCreated
  /\ job.result.clickUpError \in ClickUpErrors

====
